---- MODULE Spec2Model ----
(***************************************************************************)
(* SmartThings media-player and binary-sensor platforms                   *)
(* (custom_components/smartthings/media_player.py, binary_sensor.py).     *)
(*                                                                         *)
(* Conventions                                                             *)
(*   - A Python value that may be None is a sequence of length <= 1:       *)
(*     None is << >> and a value v is << v >>.                             *)
(*   - A float volume fraction is an integer number of thousandths         *)
(*     (0.42 is 420); the raw device volume is the integer 0..100.         *)
(*   - The result of a property read is [tag, val]: tag "ok" with the      *)
(*     returned value (None when absent), or tag "raise".                  *)
(*   - device.status.attributes is pysmartthings' defaultdict: reading an  *)
(*     attribute the device never reported yields a Status whose value is  *)
(*     None.                                                               *)
(***************************************************************************)
EXTENDS Integers, Sequences, FiniteSets, TLC

VARIABLES
    capabilities,        \* device.capabilities
    supported_features,  \* SmartThingsMediaPlayer._supported_features
    status,              \* device.status: the attribute snapshot
    call,                \* the handler that ran last and its argument
    sent,                \* the remote command it issued
    result,              \* the acknowledgement device.command returned
    scheduled,           \* did it call async_schedule_update_ha_state
    raised,              \* did it raise
    calls,               \* number of handlers and pushes run so far
    lastAuth,            \* history: last authoritative value per attribute
    optimistic,          \* history: attributes whose last write was optimistic
    offered,             \* the capability set given to get_capabilities
    mp_result,           \* what media_player.get_capabilities returned
    bs_result,           \* what binary_sensor.get_capabilities returned
    bs_prev              \* the binary-sensor result before it was fed back

vars == << capabilities, supported_features, status, call, sent, result,
           scheduled, raised, calls, lastAuth, optimistic,
           offered, mp_result, bs_result, bs_prev >>

playerVars == << capabilities, supported_features, status, call, sent,
                 result, scheduled, raised >>
historyVars == << lastAuth, optimistic >>
matchVars == << offered, mp_result, bs_result, bs_prev >>

----------------------------------------------------------------------------
(* Bounds *)

MaxCalls == 2
MaxCaps == 3

----------------------------------------------------------------------------
(* Python values *)

None == << >>
Some(v) == << v >>
Ok(v) == [tag |-> "ok", val |-> v]
Raise == [tag |-> "raise", val |-> None]
Range(s) == { s[i] : i \in 1..Len(s) }

----------------------------------------------------------------------------
(* Constants of media_player.py *)

CONTROLLABLE_SOURCES == {"bluetooth", "wifi"}

\* VALUE_TO_STATE: the keys, and the mapping (None for "unknown")
VALUE_TO_STATE_KEYS == {"playing", "paused", "on", "off", "unknown"}
VALUE_TO_STATE(v) ==
    CASE v = "playing" -> Some("playing")
      [] v = "paused"  -> Some("paused")
      [] v = "on"      -> Some("on")
      [] v = "off"     -> Some("off")
      [] v = "unknown" -> None

STATE_PLAYING == "playing"
STATE_PAUSED == "paused"
STATE_ON == "on"
STATE_OFF == "off"

\* ATTRIBUTE_ON_VALUES[Attribute.playback_shuffle]
ATTRIBUTE_ON_VALUES_playback_shuffle == "enabled"

----------------------------------------------------------------------------
(* get_capabilities of the two platforms *)

min_required == << "mediaPlayback", "switch" >>
all_supported == << "switch", "audioVolume", "mediaPlaybackShuffle",
                    "mediaInputSource", "audioMute", "mediaPlayback" >>

get_capabilities_requiring_all(caps) ==
    IF \A i \in 1..Len(min_required) : min_required[i] \in caps
    THEN Some(all_supported)
    ELSE None

get_capabilities(caps) ==
    IF \E i \in 1..Len(min_required) : min_required[i] \in caps
    THEN Some(all_supported)
    ELSE None

CAPABILITY_TO_ATTRIB ==
    << "accelerationSensor", "contactSensor", "filterStatus", "motionSensor",
       "presenceSensor", "soundSensor", "tamperAlert", "valve", "waterSensor" >>

binary_sensor_get_capabilities_first_only(caps) ==
    LET hits == SelectSeq(CAPABILITY_TO_ATTRIB, LAMBDA c : c \in caps)
    IN  IF hits = << >> THEN hits ELSE << hits[1] >>

binary_sensor_get_capabilities(caps) ==
    SelectSeq(CAPABILITY_TO_ATTRIB, LAMBDA c : c \in caps)

----------------------------------------------------------------------------
(* SmartThingsMediaPlayer.__init__: the feature flags *)

Features(caps) ==
    {"PLAY", "PAUSE", "STOP"}
    \cup (IF "audioVolume" \in caps THEN {"VOLUME_SET", "VOLUME_STEP"} ELSE {})
    \cup (IF "audioMute" \in caps THEN {"VOLUME_MUTE"} ELSE {})
    \cup (IF "switch" \in caps THEN {"TURN_ON", "TURN_OFF"} ELSE {})
    \cup (IF "mediaInputSource" \in caps THEN {"SELECT_SOURCE"} ELSE {})
    \cup (IF "mediaPlaybackShuffle" \in caps THEN {"SHUFFLE_SET"} ELSE {})

----------------------------------------------------------------------------
(* MediaPlayerDeviceEntity: reads of the snapshot *)

audio_mute(st) == st.mute = Some("muted")
audio_volume(st) == st.volume
playback_status(st) == st.playbackStatus
input_source(st) == st.inputSource

\* "value" in None raises TypeError
supported_input_sources(st) ==
    IF st.supportedInputSources = None THEN Raise
    ELSE Ok(Some(st.supportedInputSources[1].value))

playback_shuffle(st) ==
    st.playbackShuffle = Some(ATTRIBUTE_ON_VALUES_playback_shuffle)

entity_media_title(st) == st.trackDescription

----------------------------------------------------------------------------
(* SmartThingsMediaPlayer: the read properties *)

source(feat, st) ==
    IF "SELECT_SOURCE" \in feat THEN input_source(st) ELSE None

state_any_source(feat, st) ==
    IF st.switch
    THEN IF playback_status(st) # None
            /\ playback_status(st)[1] \in VALUE_TO_STATE_KEYS
         THEN VALUE_TO_STATE(playback_status(st)[1])
         ELSE Some(STATE_ON)
    ELSE Some(STATE_OFF)

state(feat, st) ==
    IF st.switch
    THEN IF /\ source(feat, st) # None
            /\ source(feat, st)[1] \in CONTROLLABLE_SOURCES
            /\ playback_status(st) # None
            /\ playback_status(st)[1] \in VALUE_TO_STATE_KEYS
         THEN VALUE_TO_STATE(playback_status(st)[1])
         ELSE Some(STATE_ON)
    ELSE Some(STATE_OFF)

media_title(feat, st) ==
    IF state(feat, st) \in {Some(STATE_PLAYING), Some(STATE_PAUSED)}
    THEN Ok(entity_media_title(st))
    ELSE Ok(None)

is_volume_muted(feat, st) ==
    IF "VOLUME_MUTE" \in feat THEN Ok(Some(audio_mute(st))) ELSE Ok(None)

\* raw / 100, in thousandths; None / 100 raises TypeError
volume_level(feat, st) ==
    IF "VOLUME_SET" \in feat
    THEN IF audio_volume(st) = None THEN Raise
         ELSE Ok(Some(audio_volume(st)[1] * 10))
    ELSE Ok(None)

source_list(feat, st) ==
    IF "SELECT_SOURCE" \in feat THEN supported_input_sources(st) ELSE Ok(None)

shuffle(feat, st) ==
    IF "SHUFFLE_SET" \in feat THEN Ok(Some(playback_shuffle(st))) ELSE Ok(None)

\* every readable property of the entity
Readable(feat, st) ==
    [ state |-> Ok(state(feat, st)),
      is_volume_muted |-> is_volume_muted(feat, st),
      volume_level |-> volume_level(feat, st),
      source |-> Ok(source(feat, st)),
      source_list |-> source_list(feat, st),
      shuffle |-> shuffle(feat, st),
      media_title |-> media_title(feat, st) ]

----------------------------------------------------------------------------
(* MediaPlayerDeviceEntity: the commands.  Each takes the snapshot, the     *)
(* acknowledgement `res` that device.command returned and set_status, and   *)
(* gives the snapshot it leaves.                                            *)

Attributes == {"switch", "mute", "volume", "playbackStatus", "inputSource",
               "supportedInputSources", "playbackShuffle", "trackDescription"}

\* device.status.update_attribute_value
update_attribute_value(st, attr, value) == [st EXCEPT ![attr] = Some(value)]

mute(st, res, set_status) ==
    IF res /\ set_status THEN update_attribute_value(st, "mute", "muted")
    ELSE st

unmute(st, res, set_status) ==
    IF res /\ set_status THEN update_attribute_value(st, "mute", "unmuted")
    ELSE st

set_volume(st, volume, res, set_status) ==
    IF res /\ set_status THEN update_attribute_value(st, "volume", volume)
    ELSE st

Min(a, b) == IF a < b THEN a ELSE b
Max(a, b) == IF a > b THEN a ELSE b

\* None + 1 raises TypeError, after the command was acknowledged
volume_step_raises(st, res, set_status) ==
    res /\ set_status /\ audio_volume(st) = None

volume_up_unclamped(st, res, set_status) ==
    IF res /\ set_status /\ audio_volume(st) # None
    THEN update_attribute_value(st, "volume", audio_volume(st)[1] + 1)
    ELSE st

volume_up(st, res, set_status) ==
    IF res /\ set_status /\ audio_volume(st) # None
    THEN update_attribute_value(st, "volume",
                                Min(audio_volume(st)[1] + 1, 100))
    ELSE st

volume_down(st, res, set_status) ==
    IF res /\ set_status /\ audio_volume(st) # None
    THEN update_attribute_value(st, "volume",
                                Max(audio_volume(st)[1] - 1, 0))
    ELSE st

play(st, res, set_status) ==
    IF res /\ set_status
    THEN update_attribute_value(st, "playbackStatus", "playing")
    ELSE st

pause_unconditional(st, res, set_status) ==
    update_attribute_value(st, "playbackStatus", "paused")

pause(st, res, set_status) ==
    IF res /\ set_status
    THEN update_attribute_value(st, "playbackStatus", "paused")
    ELSE st

set_input_source(st, src, res, set_status) ==
    IF res /\ set_status THEN update_attribute_value(st, "inputSource", src)
    ELSE st

shuffle_value(shuf) ==
    IF shuf THEN ATTRIBUTE_ON_VALUES_playback_shuffle ELSE "disabled"

\* the optimistic write goes to Attribute.playback_status
set_playback_shuffle(st, shuf, res, set_status) ==
    IF res /\ set_status
    THEN update_attribute_value(st, "playbackStatus", shuffle_value(shuf))
    ELSE st

----------------------------------------------------------------------------
(* The pysmartthings DeviceEntity commands the entity calls directly        *)

switch_on(st, res, set_status) ==
    IF res /\ set_status THEN [st EXCEPT !.switch = TRUE] ELSE st

switch_off(st, res, set_status) ==
    IF res /\ set_status THEN [st EXCEPT !.switch = FALSE] ELSE st

\* DeviceEntity.stop: the library chooses the optimistic playback value
DeviceStopValues == {"paused", "stopped"}
device_stop(st, val, res, set_status) ==
    IF res /\ set_status
    THEN update_attribute_value(st, "playbackStatus", val)
    ELSE st

----------------------------------------------------------------------------
(* int(volume * 100) on a fraction given in thousandths.  The double        *)
(* product falls just below the integer for 0.29, 0.57 and 0.58             *)
(* (0.29 * 100 = 28.999999999999996), and int() truncates.                  *)

FloatShort == {290, 570, 580}

int_volume_rounded(v) == (v + 5) \div 10

int_volume(v) == IF v \in FloatShort THEN (v \div 10) - 1 ELSE v \div 10

----------------------------------------------------------------------------
(* SmartThingsMediaPlayer: the action handlers.  A handler awaits the        *)
(* command, and when the await returns it calls                             *)
(* async_schedule_update_ha_state.                                          *)

async_schedule_update_ha_state_on_ack(res, exc) == res /\ ~exc

\* the last statement of every handler; not reached when the await raised
async_schedule_update_ha_state(res, exc) == ~exc

Handler(op, arg, command, args, res, newStatus, exc) ==
    /\ call' = [op |-> op, arg |-> arg]
    /\ sent' = [command |-> command, args |-> args]
    /\ result' = res
    /\ raised' = exc
    /\ status' = IF exc THEN status ELSE newStatus
    /\ scheduled' = async_schedule_update_ha_state(res, exc)
    /\ UNCHANGED << capabilities, supported_features >>

async_turn_off(res) ==
    Handler("async_turn_off", << >>, "off", << >>, res,
            switch_off(status, res, TRUE), FALSE)

async_turn_on(res) ==
    Handler("async_turn_on", << >>, "on", << >>, res,
            switch_on(status, res, TRUE), FALSE)

async_mute_volume(m, res) ==
    IF m
    THEN Handler("async_mute_volume", << m >>, "mute", << >>, res,
                 mute(status, res, TRUE), FALSE)
    ELSE Handler("async_mute_volume", << m >>, "unmute", << >>, res,
                 unmute(status, res, TRUE), FALSE)

async_set_volume_level(v, res) ==
    Handler("async_set_volume_level", << v >>, "setVolume",
            << int_volume(v) >>, res,
            set_volume(status, int_volume(v), res, TRUE), FALSE)

async_volume_up(res) ==
    Handler("async_volume_up", << >>, "volumeUp", << >>, res,
            volume_up(status, res, TRUE),
            volume_step_raises(status, res, TRUE))

async_volume_down(res) ==
    Handler("async_volume_down", << >>, "volumeDown", << >>, res,
            volume_down(status, res, TRUE),
            volume_step_raises(status, res, TRUE))

async_media_play(res) ==
    Handler("async_media_play", << >>, "play", << >>, res,
            play(status, res, TRUE), FALSE)

async_media_pause(res) ==
    Handler("async_media_pause", << >>, "pause", << >>, res,
            pause(status, res, TRUE), FALSE)

\* calls self._device.stop, not self._media_device.stop
async_media_stop(val, res) ==
    Handler("async_media_stop", << >>, "stop", << >>, res,
            device_stop(status, val, res, TRUE), FALSE)

async_select_source(src, res) ==
    Handler("async_select_source", << src >>, "setInputSource", << src >>,
            res, set_input_source(status, src, res, TRUE), FALSE)

async_set_shuffle(shuf, res) ==
    Handler("async_set_shuffle", << shuf >>, "setPlaybackShuffle",
            << shuffle_value(shuf) >>, res,
            set_playback_shuffle(status, shuf, res, TRUE), FALSE)

\* An authoritative update of one attribute, applied by the API client
Push(attr, v) ==
    /\ status' = [status EXCEPT ![attr] = v]
    /\ call' = [op |-> "push", arg |-> << attr >>]
    /\ sent' = [command |-> "none", args |-> << >>]
    /\ result' = FALSE
    /\ raised' = FALSE
    /\ scheduled' = FALSE
    /\ UNCHANGED << capabilities, supported_features >>


----------------------------------------------------------------------------
(* Inputs *)

MuteValues == {"muted", "unmuted"}
PlaybackValues == VALUE_TO_STATE_KEYS \cup {"stopped"}
SourceNames == {"bluetooth", "wifi", "HDMI1"}
ShuffleValues == {"enabled", "disabled"}
SourceLists ==
    { [wrapped |-> w, value |-> << "bluetooth", "HDMI1" >>] : w \in BOOLEAN }
PushedVolumes == {0, 42, 100}

\* the authoritative updates the API client may deliver
Pushes ==
    { << "switch", b >> : b \in BOOLEAN }
    \cup { << "mute", Some(m) >> : m \in MuteValues }
    \cup { << "volume", Some(n) >> : n \in PushedVolumes }
    \cup { << "playbackStatus", Some(p) >> : p \in PlaybackValues }
    \cup { << "inputSource", Some(s) >> : s \in SourceNames }
    \cup { << "supportedInputSources", Some(l) >> : l \in SourceLists }
    \cup { << "playbackShuffle", Some(h) >> : h \in ShuffleValues }
    \cup { << "trackDescription", Some("Song") >> }

\* volume fractions 0.0, 0.25, 0.5, 0.75, 1.0 in thousandths
CoarseVolumes == { k \in 0..1000 : k % 250 = 0 }
\* every fraction 0.000 .. 1.000
FineVolumes == 0..1000

\* before the first poll: nothing reported, is_on(switch) is False
Unpolled ==
    [ switch |-> FALSE, mute |-> None, volume |-> None,
      playbackStatus |-> None, inputSource |-> None,
      supportedInputSources |-> None, playbackShuffle |-> None,
      trackDescription |-> None ]

\* a speaker streaming over bluetooth at one step below full volume
Streaming ==
    [ switch |-> TRUE, mute |-> Some("unmuted"), volume |-> Some(99),
      playbackStatus |-> Some("playing"), inputSource |-> Some("bluetooth"),
      supportedInputSources |->
          Some([wrapped |-> TRUE, value |-> << "bluetooth", "HDMI1" >>]),
      playbackShuffle |-> Some("disabled"),
      trackDescription |-> Some("Song") ]

\* a switched-on speaker on a wired input, muted, at volume 0
Wired ==
    [ switch |-> TRUE, mute |-> Some("muted"), volume |-> Some(0),
      playbackStatus |-> Some("unknown"), inputSource |-> Some("HDMI1"),
      supportedInputSources |->
          Some([wrapped |-> FALSE, value |-> << "bluetooth", "HDMI1" >>]),
      playbackShuffle |-> Some("enabled"),
      trackDescription |-> None ]

\* the devices async_setup_entry makes an entity for: four capability sets
\* that get_capabilities accepts
PlayerDevices ==
    { c \in { Range(all_supported),
              {"switch", "mediaPlayback"},
              {"mediaPlayback", "audioVolume", "audioMute"},
              {"switch", "mediaInputSource", "mediaPlaybackShuffle"} } :
        get_capabilities(c) # None }

NoCall == [op |-> "none", arg |-> << >>]
NoCommand == [command |-> "none", args |-> << >>]
Pending == [kind |-> "pending", items |-> << >>]

InitPlayer(snapshots) ==
    /\ capabilities \in PlayerDevices
    /\ supported_features = Features(capabilities)
    /\ status \in snapshots
    /\ call = NoCall
    /\ sent = NoCommand
    /\ result = FALSE
    /\ scheduled = FALSE
    /\ raised = FALSE

InitHistory ==
    /\ calls = 0
    /\ lastAuth = status
    /\ optimistic = {}

InitMatch ==
    /\ offered = {}
    /\ mp_result = Pending
    /\ bs_result = Pending
    /\ bs_prev = Pending

----------------------------------------------------------------------------
(* The media player under interleaved commands and pushes                   *)

TurnOff == \E res \in BOOLEAN : async_turn_off(res)
TurnOn == \E res \in BOOLEAN : async_turn_on(res)
MuteVolume == \E m \in BOOLEAN, res \in BOOLEAN : async_mute_volume(m, res)
SetVolumeLevel(inputs) ==
    \E v \in inputs, res \in BOOLEAN : async_set_volume_level(v, res)
VolumeUp == \E res \in BOOLEAN : async_volume_up(res)
VolumeDown == \E res \in BOOLEAN : async_volume_down(res)
MediaPlay == \E res \in BOOLEAN : async_media_play(res)
MediaPause == \E res \in BOOLEAN : async_media_pause(res)
MediaStop ==
    \E val \in DeviceStopValues, res \in BOOLEAN : async_media_stop(val, res)
SelectSource ==
    \E src \in SourceNames, res \in BOOLEAN : async_select_source(src, res)
SetShuffle == \E shuf \in BOOLEAN, res \in BOOLEAN : async_set_shuffle(shuf, res)
PushUpdate == \E p \in Pushes : Push(p[1], p[2])

\* history: a push makes its value the authoritative one; an acknowledged
\* command makes what it changed optimistic
Record ==
    /\ calls < MaxCalls
    /\ calls' = calls + 1
    /\ lastAuth' = IF call'.op = "push"
                   THEN [lastAuth EXCEPT ![call'.arg[1]] = status'[call'.arg[1]]]
                   ELSE lastAuth
    /\ optimistic' =
          IF call'.op = "push" THEN optimistic \ {call'.arg[1]}
          ELSE IF result'
               THEN optimistic \cup {a \in Attributes : status'[a] # status[a]}
               ELSE optimistic

\* one handler or push, with the history it leaves
Step(A) == A /\ Record /\ UNCHANGED matchVars

Next ==
    \/ Step(TurnOff)
    \/ Step(TurnOn)
    \/ Step(MuteVolume)
    \/ Step(SetVolumeLevel(CoarseVolumes))
    \/ Step(VolumeUp)
    \/ Step(VolumeDown)
    \/ Step(MediaPlay)
    \/ Step(MediaPause)
    \/ Step(MediaStop)
    \/ Step(SelectSource)
    \/ Step(SetShuffle)
    \/ Step(PushUpdate)

Init == InitPlayer({Unpolled, Streaming, Wired}) /\ InitHistory /\ InitMatch

Spec == Init /\ [][Next]_vars


----------------------------------------------------------------------------
(* The volume handlers alone, over every volume fraction of the grid        *)

\* 0.00, 0.006, 0.01, 0.016, ... 1.00: the hundredths and a point above each
GridVolumes == { k \in FineVolumes : k % 10 \in {0, 6} }

PushVolume == \E n \in PushedVolumes : Push("volume", Some(n))

VolumeStep(A) ==
    A /\ UNCHANGED << calls, lastAuth, optimistic >> /\ UNCHANGED matchVars

NextVolume ==
    \/ VolumeStep(SetVolumeLevel(GridVolumes))
    \/ VolumeStep(VolumeUp)
    \/ VolumeStep(VolumeDown)
    \/ VolumeStep(PushVolume)

InitVolume ==
    /\ capabilities = Range(all_supported)
    /\ supported_features = Features(capabilities)
    /\ status = Streaming
    /\ call = NoCall
    /\ sent = NoCommand
    /\ result = FALSE
    /\ scheduled = FALSE
    /\ raised = FALSE
    /\ InitHistory
    /\ InitMatch

SpecVolume == InitVolume /\ [][NextVolume]_vars

----------------------------------------------------------------------------
(* The two capability matchers applied to a device's capability set         *)

AllCapabilities ==
    Range(CAPABILITY_TO_ATTRIB) \cup Range(all_supported) \cup {"battery"}

Matched(r) ==
    IF r = None THEN [kind |-> "none", items |-> << >>]
    ELSE [kind |-> "list", items |-> r[1]]

MatchMediaPlayer ==
    /\ mp_result' = Matched(get_capabilities(offered))
    /\ UNCHANGED << offered, bs_result, bs_prev >>

MatchBinarySensor ==
    /\ bs_result' = Matched(Some(binary_sensor_get_capabilities(offered)))
    /\ UNCHANGED << offered, mp_result, bs_prev >>

\* the binary-sensor result, as a set, becomes the next input
FeedBack ==
    /\ bs_result.kind = "list"
    /\ bs_prev = Pending
    /\ offered' = Range(bs_result.items)
    /\ bs_prev' = bs_result
    /\ bs_result' = Pending
    /\ mp_result' = Pending

MatchStep(A) ==
    A /\ UNCHANGED playerVars /\ UNCHANGED << calls, lastAuth, optimistic >>

NextMatch ==
    \/ MatchStep(MatchMediaPlayer)
    \/ MatchStep(MatchBinarySensor)
    \/ MatchStep(FeedBack)

InitOffered ==
    /\ capabilities = Range(all_supported)
    /\ supported_features = Features(capabilities)
    /\ status = Unpolled
    /\ call = NoCall
    /\ sent = NoCommand
    /\ result = FALSE
    /\ scheduled = FALSE
    /\ raised = FALSE
    /\ InitHistory
    /\ offered \in { c \in SUBSET AllCapabilities : Cardinality(c) <= MaxCaps }
    /\ mp_result = Pending
    /\ bs_result = Pending
    /\ bs_prev = Pending

SpecMatch == InitOffered /\ [][NextMatch]_vars


----------------------------------------------------------------------------
(* Properties *)

HandlerOps ==
    {"async_turn_off", "async_turn_on", "async_mute_volume",
     "async_set_volume_level", "async_volume_up", "async_volume_down",
     "async_media_play", "async_media_pause", "async_media_stop",
     "async_select_source", "async_set_shuffle"}
MediaCommandOps == HandlerOps \ {"async_turn_off", "async_turn_on"}

\* C1 as stated: an action whose command was not acknowledged requests no
\* re-render; a re-render is requested only after an affirmative
\* acknowledgement.
C1_NoRenderWithoutAck ==
    call.op \in HandlerOps => (scheduled => result)

\* C1 amended: every action requests the re-render once its command has
\* returned, whether the acknowledgement was affirmative or not; only an
\* action that raised requests none.
C1_RenderAfterEveryCommand ==
    call.op \in HandlerOps => (scheduled <=> ~raised)

C1_Witness ==
    call.op \in HandlerOps /\ ~result /\ ~raised /\ scheduled

\* C2: a media-player command whose acknowledgement is not affirmative
\* leaves the snapshot as it was, so every readable property reads the same
\* after the call as before it.
C2_FailedCommandKeepsSnapshot ==
    [][ (call'.op \in MediaCommandOps /\ ~result')
        => /\ status' = status
           /\ Readable(supported_features', status')
                = Readable(supported_features, status) ]_vars

C2_Witness ==
    /\ call.op \in MediaCommandOps
    /\ ~result
    /\ status.playbackStatus = Some("playing")

\* the state the claim C3 describes, with `unknownGives` the state it gives
\* for playback-status "unknown" on a controllable source
FallbackState(unknownGives) ==
    IF ~status.switch THEN Some(STATE_OFF)
    ELSE IF /\ "SELECT_SOURCE" \in supported_features
            /\ status.inputSource \in {Some("bluetooth"), Some("wifi")}
         THEN CASE status.playbackStatus = Some("playing") -> Some(STATE_PLAYING)
                [] status.playbackStatus = Some("paused") -> Some(STATE_PAUSED)
                [] status.playbackStatus = Some("on") -> Some(STATE_ON)
                [] status.playbackStatus = Some("off") -> Some(STATE_OFF)
                [] status.playbackStatus = Some("unknown") -> unknownGives
                [] OTHER -> Some(STATE_ON)
         ELSE Some(STATE_ON)

\* C3 as stated: switch off gives OFF; switch on with a controllable source
\* and playback-status playing, paused, on or off gives the mapped state;
\* every other switch-on case, playback-status "unknown" included, gives ON.
C3_UnknownGivesOn ==
    state(supported_features, status) = FallbackState(Some(STATE_ON))

\* C3 amended: as stated, except that switch on with a controllable source
\* and playback-status "unknown" gives no state (None), not ON.
C3_StateFallback ==
    state(supported_features, status) = FallbackState(None)

C3_Witness ==
    /\ status.switch
    /\ "SELECT_SOURCE" \in supported_features
    /\ status.inputSource = Some("bluetooth")
    /\ status.playbackStatus = Some("unknown")
    /\ state(supported_features, status) = None

\* every attribute holds a value of its own domain
InDomain(st) ==
    /\ st.mute \in { Some(m) : m \in MuteValues }
    /\ st.volume \in { Some(n) : n \in 0..100 }
    /\ st.playbackStatus \in { Some(p) : p \in PlaybackValues }
    /\ st.inputSource \in { Some(n) : n \in SourceNames }
    /\ st.playbackShuffle \in { Some(h) : h \in ShuffleValues }

\* C4: from a snapshot whose attributes each hold a value of their own
\* domain, no command and no push leaves an attribute holding a value of
\* another attribute's domain.
C4_DomainsKept ==
    [][ InDomain(status) => InDomain(status') ]_vars

\* C5: an attribute whose last write was an authoritative push holds the
\* pushed value; it differs from the last authoritative value only after an
\* acknowledged command overwrote it since.
C5_LastWriterWins ==
    \A a \in Attributes : a \notin optimistic => status[a] = lastAuth[a]

C5_Witness ==
    /\ call.op \in HandlerOps
    /\ result
    /\ lastAuth.playbackStatus = Some("stopped")
    /\ status.playbackStatus = Some("playing")
    /\ "playbackStatus" \in optimistic

\* C8: no read accessor raises; one whose feature flag is unset returns
\* absent.
C8_AccessorsNeverRaise ==
    LET r == Readable(supported_features, status)
    IN  /\ \A f \in DOMAIN r : r[f].tag = "ok"
        /\ "VOLUME_SET" \notin supported_features => r.volume_level.val = None
        /\ "VOLUME_MUTE" \notin supported_features => r.is_volume_muted.val = None
        /\ "SELECT_SOURCE" \notin supported_features
              => r.source.val = None /\ r.source_list.val = None
        /\ "SHUFFLE_SET" \notin supported_features => r.shuffle.val = None


\* C6: the raw volume stays in 0..100; an acknowledged volume_up adds one
\* but leaves 100 at 100, an acknowledged volume_down subtracts one but
\* leaves 0 at 0.
C6_VolumeStaysInRange ==
    /\ [](status.volume \in { Some(n) : n \in 0..100 })
    /\ [][ (call'.op = "async_volume_up" /\ result')
           => status'.volume =
                 IF status.volume = Some(100) THEN Some(100)
                 ELSE Some(status.volume[1] + 1) ]_vars
    /\ [][ (call'.op = "async_volume_down" /\ result')
           => status'.volume =
                 IF status.volume = Some(0) THEN Some(0)
                 ELSE Some(status.volume[1] - 1) ]_vars

C6_Witness ==
    /\ call.op = "async_volume_up"
    /\ result
    /\ status.volume = Some(100)

Abs(n) == IF n < 0 THEN -n ELSE n

\* C7 as stated: an acknowledged set_volume(v) sends setVolume with
\* round(v*100), the integer nearest to v*100, stores that integer, and
\* volume_level reads raw/100.
C7_StoresRounded ==
    (call.op = "async_set_volume_level" /\ result)
    => LET v == call.arg[1]
           raw == status.volume[1]
       IN  /\ sent = [command |-> "setVolume", args |-> << raw >>]
           /\ Abs(raw * 10 - v) <= 5
           /\ volume_level(supported_features, status) = Ok(Some(raw * 10))

\* C7 amended: an acknowledged set_volume(v) sends setVolume with
\* int(v*100), the double product truncated and so never above v*100
\* (0.426 gives 42; 0.29, 0.57 and 0.58 give 28, 56 and 57), stores that
\* integer, and volume_level reads raw/100; set_volume(0.42) stores 42 and
\* reads back 0.42.
C7_StoresTruncated ==
    (call.op = "async_set_volume_level" /\ result)
    => LET v == call.arg[1]
           raw == status.volume[1]
       IN  /\ sent = [command |-> "setVolume", args |-> << raw >>]
           /\ raw * 10 <= v
           /\ v < raw * 10 + (IF v \in {290, 570, 580} THEN 20 ELSE 10)
           /\ volume_level(supported_features, status) = Ok(Some(raw * 10))
           /\ v = 420 => raw = 42

C7_Witness ==
    /\ call = [op |-> "async_set_volume_level", arg |-> << 426 >>]
    /\ result
    /\ status.volume = Some(42)
    /\ volume_level(supported_features, status) = Ok(Some(420))

\* C9: the media-player matcher returns a list exactly when the capability
\* set contains media_playback or switch, and the list is then the fixed six
\* capabilities whatever else the set contains; otherwise it returns None.
C9_AllOrNothing ==
    mp_result # Pending
    => IF "mediaPlayback" \in offered \/ "switch" \in offered
       THEN mp_result =
              [kind |-> "list",
               items |-> << "switch", "audioVolume", "mediaPlaybackShuffle",
                            "mediaInputSource", "audioMute",
                            "mediaPlayback" >>]
       ELSE mp_result.kind = "none"

C9_Witness ==
    /\ mp_result.kind = "list"
    /\ "switch" \in offered
    /\ "mediaPlayback" \notin offered
    /\ "audioVolume" \notin offered

CatalogIndex(c) ==
    CHOOSE i \in 1..Len(CAPABILITY_TO_ATTRIB) : CAPABILITY_TO_ATTRIB[i] = c

\* C10: the binary-sensor matcher returns exactly the capabilities of the
\* set that are catalog keys, in catalog order and without duplicates, and
\* matching its own result again returns the same list.
C10_CatalogOrderedIntersection ==
    /\ bs_result.kind = "list"
       => /\ Range(bs_result.items)
               = offered \cap Range(CAPABILITY_TO_ATTRIB)
          /\ \A i, j \in 1..Len(bs_result.items) :
                i < j => CatalogIndex(bs_result.items[i])
                           < CatalogIndex(bs_result.items[j])
    /\ (bs_prev.kind = "list" /\ bs_result.kind = "list")
       => bs_result = bs_prev

C10_Witness ==
    /\ bs_prev.kind = "list"
    /\ bs_result.kind = "list"
    /\ Len(bs_result.items) >= 2
    /\ bs_result.items[1] = "contactSensor"


====
